---- MODULE Spec2Model ----
(***************************************************************************)
(* Nordic Data Intel: the App component (jobs collection, busy flag,       *)
(* status log, scan / analyze handlers), the scanJobs service and the      *)
(* JobCard component (apply-link resolver).                                *)
(*                                                                         *)
(* Specifications                                                          *)
(*   Spec       the App session: user triggers and response arrivals       *)
(*   SpecMerge  mergeAndSortJobs applied to arbitrary pairs of arrays      *)
(*   SpecLog    addLog called repeatedly                                   *)
(*   SpecCard   one JobCard whose Apply button is clicked                  *)
(*   SpecBadge  one JobCard rendering its age badge                        *)
(*   SpecFair   Spec, with every awaited scanJobs promise settling         *)
(***************************************************************************)
EXTENDS Integers, Sequences, FiniteSets, Bags, TLC

VARIABLES
    jobs,         \* App: useState<JobAlert[]>([])
    isScanning,   \* App: useState(false)
    activeTab,    \* App: useState('feed')
    analyzeText,  \* App: useState('')
    logs,         \* App: useState<string[]>([])
    apiKey,       \* process.env.API_KEY ("" when not configured)
    inflight,     \* invocations suspended at `await scanJobs(...)`
    calls,        \* number of generateContent calls issued so far
    alerts,       \* number of alert() dialogs shown so far
    invocations,  \* number of handler runs that reached setIsScanning(true)
    last,         \* the step taken last: its operation and the response it consumed
    incoming,     \* SpecMerge: newJobs argument
    existing,     \* SpecMerge: currentJobs argument
    output,       \* SpecMerge: value returned by mergeAndSortJobs (<<>> before the call)
    merged,       \* SpecMerge: TRUE once mergeAndSortJobs has returned
    logged,       \* SpecLog: every line ever passed to setLogs, newest first
    job,          \* SpecCard, SpecBadge: the `job` prop of the card
    opened,       \* SpecCard: URLs passed to window.open, in order
    badge         \* SpecBadge: the age badge the card rendered (NoBadge before it renders)

appVars   == <<jobs, isScanning, activeTab, analyzeText, logs, apiKey, inflight, calls, alerts,
              invocations, last>>
mergeVars == <<incoming, existing, output, merged>>
logVars   == <<logged>>
cardVars  == <<job, opened, badge>>
vars      == <<appVars, mergeVars, logVars, cardVars>>

(***************************************************************************)
(* JavaScript values.                                                      *)
(***************************************************************************)
\* A property that is absent from an object (JavaScript `undefined`).
Undefined == "<undefined>"

\* ToBoolean of a string-or-undefined value: undefined and "" are falsy.
Truthy(v) == v # Undefined /\ v # ""

\* Template-literal interpolation `${v}`: undefined prints as the word undefined.
Interp(v) == IF v = Undefined THEN "undefined" ELSE v

CharAt(s, i) == SubSeq(s, i, i)

\* String.prototype.includes
Includes(s, sub) ==
    \E i \in 1..(Len(s) - Len(sub) + 1) : SubSeq(s, i, i + Len(sub) - 1) = sub

StartsWith(s, p) == Len(s) >= Len(p) /\ SubSeq(s, 1, Len(p)) = p

UpperLetters == "ABCDEFGHIJKLMNOPQRSTUVWXYZÅÄÖ"
LowerLetters == "abcdefghijklmnopqrstuvwxyzåäö"

LowerChar(c) ==
    IF \E i \in 1..Len(UpperLetters) : CharAt(UpperLetters, i) = c
    THEN CharAt(LowerLetters, CHOOSE i \in 1..Len(UpperLetters) : CharAt(UpperLetters, i) = c)
    ELSE c

\* String.prototype.toLowerCase
RECURSIVE ToLowerCase(_)
ToLowerCase(s) ==
    IF s = "" THEN ""
    ELSE LowerChar(CharAt(s, 1)) \o ToLowerCase(SubSeq(s, 2, Len(s)))

\* Characters encodeURIComponent leaves alone: A-Z a-z 0-9 - _ . ! ~ * ' ( )
Unreserved == "ABCDEFGHIJKLMNOPQRSTUVWXYZabcdefghijklmnopqrstuvwxyz0123456789-_.!~*'()"

\* Percent-encoding of the UTF-8 bytes of one character (the reserved characters the
\* model's strings use).
EncodeChar(c) ==
    IF Includes(Unreserved, c) THEN c
    ELSE CASE c = " " -> "%20"
           [] c = "&" -> "%26"
           [] c = "/" -> "%2F"
           [] c = ":" -> "%3A"
           [] c = "+" -> "%2B"
           [] c = "?" -> "%3F"
           [] c = "=" -> "%3D"
           [] c = "<" -> "%3C"
           [] c = ">" -> "%3E"
           [] c = "ö" -> "%C3%B6"
           [] c = "Ö" -> "%C3%96"

\* encodeURIComponent
RECURSIVE EncodeURIComponent(_)
EncodeURIComponent(s) ==
    IF s = "" THEN ""
    ELSE EncodeChar(CharAt(s, 1)) \o EncodeURIComponent(SubSeq(s, 2, Len(s)))

(***************************************************************************)
(* JobCard: the apply-link resolver.                                       *)
(***************************************************************************)
\* const q = encodeURIComponent(`${job.job_title} ${job.company}`)
ApplyQuery(j) == EncodeURIComponent(Interp(j.job_title) \o " " \o Interp(j.company))

\* const loc = encodeURIComponent(job.location || 'Sweden')
ApplyLoc(j) == EncodeURIComponent(IF Truthy(j.location) THEN j.location ELSE "Sweden")

\* const source = (job.source || '').toLowerCase()
ApplySource(j) == ToLowerCase(IF Truthy(j.source) THEN j.source ELSE "")

\* Mutant: the length test is off by one (url.length <= 5).
ApplyUrlRejectedOffByOne(url) ==
    \/ ~Truthy(url)
    \/ Len(url) <= 5
    \/ Includes(url, "example.com")

\* !url || url.length < 5 || url.includes("example.com")
ApplyUrlRejected(url) ==
    \/ ~Truthy(url)
    \/ Len(url) < 5
    \/ Includes(url, "example.com")

\* Mutant: the Indeed branch is tested before the LinkedIn and Platsbanken branches.
FallbackUrlIndeedFirst(j) ==
    LET q      == ApplyQuery(j)
        loc    == ApplyLoc(j)
        source == ApplySource(j)
    IN  IF Includes(source, "indeed")
        THEN "https://se.indeed.com/jobs?q=" \o q \o "&l=" \o loc
        ELSE IF Includes(source, "linkedin")
        THEN "https://www.linkedin.com/jobs/search/?keywords=" \o q \o "&location=" \o loc
        ELSE IF Includes(source, "arbetsförmedlingen") \/ Includes(source, "platsbanken")
        THEN "https://platsbanken.arbetsformedlingen.se/platsannonser/sok?q=" \o q
        ELSE "https://www.google.com/search?q=" \o q \o "+job+" \o loc

\* The if / else-if chain on `source` of handleApply.
FallbackUrl(j) ==
    LET q      == ApplyQuery(j)
        loc    == ApplyLoc(j)
        source == ApplySource(j)
    IN  IF Includes(source, "linkedin")
        THEN "https://www.linkedin.com/jobs/search/?keywords=" \o q \o "&location=" \o loc
        ELSE IF Includes(source, "arbetsförmedlingen") \/ Includes(source, "platsbanken")
        THEN "https://platsbanken.arbetsformedlingen.se/platsannonser/sok?q=" \o q
        ELSE IF Includes(source, "indeed")
        THEN "https://se.indeed.com/jobs?q=" \o q \o "&l=" \o loc
        ELSE "https://www.google.com/search?q=" \o q \o "+job+" \o loc

\* The URL handleApply passes to window.open.
ResolveApplyUrl(j) ==
    IF ApplyUrlRejected(j.apply_url) THEN FallbackUrl(j) ELSE j.apply_url

\* Clicks on Apply that the model follows for one card.
MaxOpens == 2

\* Card props: every combination of the fields handleApply reads.
CardApplyUrls == {Undefined, "", "http", "apply", "Example.com/jobs",
                  "https://company.example/apply/123", "https://example.com/job/42"}
CardSources   == {Undefined, "", "LinkedIn", "Platsbanken", "ARBETSFÖRMEDLINGEN",
                  "Indeed SE", "Indeed (via LinkedIn)", "Platsbanken / Indeed", "Unknown Board"}
CardLocations == {Undefined, "", "Stockholm", "Remote SE"}
CardTitles    == {Undefined, "Data Engineer"}
CardCompanies == {"Acme", "H&M"}

CardJobs ==
    { [job_title |-> t, company |-> c, location |-> l, source |-> s, apply_url |-> u,
       publish_date_utc |-> "2024-05-02T08:00:00Z", match_score |-> 80, job_age_hours |-> 30]
      : t \in CardTitles, c \in CardCompanies, l \in CardLocations,
        s \in CardSources, u \in CardApplyUrls }

\* onClick={handleApply}
HandleApply ==
    /\ Len(opened) < MaxOpens
    /\ opened' = Append(opened, ResolveApplyUrl(job))
    /\ UNCHANGED <<job, badge, appVars, mergeVars, logVars>>

(***************************************************************************)
(* JobCard: the age badge.                                                 *)
(***************************************************************************)
NoBadge == [tier |-> "none", text |-> ""]

\* Mutant: the thresholds are exclusive (hours < 24, hours < 48).
getAgeBadgeExclusive(hours) ==
    IF hours < 24 THEN [tier |-> "new", text |-> "New (" \o ToString(hours) \o "h)"]
    ELSE IF hours < 48 THEN [tier |-> "recent", text |-> "Recent (" \o ToString(hours) \o "h)"]
    ELSE [tier |-> "aged", text |-> ToString(hours \div 24) \o "d old"]

\* getAgeBadge(hours): the emerald "New", blue "Recent" or slate "d old" badge and
\* its text; Math.floor(hours / 24) is \div, which rounds down.
getAgeBadge(hours) ==
    IF hours <= 24 THEN [tier |-> "new", text |-> "New (" \o ToString(hours) \o "h)"]
    ELSE IF hours <= 48 THEN [tier |-> "recent", text |-> "Recent (" \o ToString(hours) \o "h)"]
    ELSE [tier |-> "aged", text |-> ToString(hours \div 24) \o "d old"]

\* job_age_hours of the cards followed in SpecBadge: from -MaxNegativeAge to MaxAgeHours.
MaxAgeHours    == 100
MaxNegativeAge == 5

AgeHours == (0 - MaxNegativeAge)..MaxAgeHours

\* The card renders {getAgeBadge(job.job_age_hours)}.
RenderBadge ==
    /\ badge = NoBadge
    /\ badge' = getAgeBadge(job.job_age_hours)
    /\ UNCHANGED <<job, opened, appVars, mergeVars, logVars>>

(***************************************************************************)
(* App: the reconciler (mergeAndSortJobs).                                 *)
(***************************************************************************)
\* A JavaScript number that may be NaN.
Num(n)    == [nan |-> FALSE, val |-> n]
NaNNumber == [nan |-> TRUE, val |-> 0]

\* new Date(s).getTime() for the timestamp strings the model uses, in seconds since
\* the epoch (getTime() / 1000): two spellings of one instant parse to one number, a
\* string that is not a date (or a missing field) gives an Invalid Date, whose time is NaN.
DateGetTime(s) ==
    CASE s = "2024-04-30T09:00:00Z"      -> Num(1714467600)
      [] s = "2024-05-01T10:00:00Z"      -> Num(1714557600)
      [] s = "2024-05-01T12:00:00+02:00" -> Num(1714557600)
      [] s = "2024-05-02T08:00:00Z"      -> Num(1714636800)
      [] OTHER                           -> NaNNumber

\* x !== y on numbers: NaN differs from everything, itself included.
StrictNotEqual(x, y) == x.nan \/ y.nan \/ x.val # y.val

\* x - y on numbers.
Minus(x, y) == IF x.nan \/ y.nan THEN NaNNumber ELSE Num(x.val - y.val)

\* The comparator handed to sort.
CompareJobs(a, b) ==
    LET dateA == DateGetTime(a.publish_date_utc)
        dateB == DateGetTime(b.publish_date_utc)
    IN  IF StrictNotEqual(dateA, dateB)
        THEN Minus(dateB, dateA)
        ELSE Minus(Num(b.match_score), Num(a.match_score))

\* SortCompare of Array.prototype.sort: a NaN from the comparator counts as +0.
SortCompare(a, b) ==
    LET v == CompareJobs(a, b) IN IF v.nan THEN 0 ELSE v.val

\* ECMAScript's "consistent comparator" over the elements being sorted.
ConsistentComparator(S) ==
    /\ \A a \in S : SortCompare(a, a) = 0
    /\ \A a, b \in S :
          /\ (SortCompare(a, b) = 0) = (SortCompare(b, a) = 0)
          /\ (SortCompare(a, b) < 0) = (SortCompare(b, a) > 0)
    /\ \A a, b, c \in S :
          /\ SortCompare(a, b) = 0 /\ SortCompare(b, c) = 0 => SortCompare(a, c) = 0
          /\ SortCompare(a, b) < 0 /\ SortCompare(b, c) < 0 => SortCompare(a, c) < 0
          /\ SortCompare(a, b) > 0 /\ SortCompare(b, c) > 0 => SortCompare(a, c) > 0

Range(s) == { s[i] : i \in 1..Len(s) }

\* x placed after every element that does not sort after it (keeps equal elements in
\* their original order).
RECURSIVE InsertSorted(_, _)
InsertSorted(x, s) ==
    IF s = <<>> THEN <<x>>
    ELSE IF SortCompare(x, Head(s)) < 0 THEN <<x>> \o s
    ELSE <<Head(s)>> \o InsertSorted(x, Tail(s))

\* The stable sort ECMAScript 2019 prescribes for a consistent comparator.
RECURSIVE StableSort(_)
StableSort(s) ==
    IF s = <<>> THEN <<>>
    ELSE InsertSorted(s[Len(s)], StableSort(SubSeq(s, 1, Len(s) - 1)))

\* Every arrangement of the elements of s.
RECURSIVE ArrayPermutations(_)
ArrayPermutations(s) ==
    IF s = <<>> THEN { <<>> }
    ELSE UNION { { SubSeq(p, 1, k) \o <<Head(s)>> \o SubSeq(p, k + 1, Len(p)) : k \in 0..Len(p) }
                 : p \in ArrayPermutations(Tail(s)) }

\* Array.prototype.sort(comparefn): the arrays it may leave. With a consistent
\* comparator the stable sorted order; otherwise the order is implementation-defined
\* and the array is some permutation of its elements.
ArraySort(s) ==
    IF ConsistentComparator(Range(s)) THEN { StableSort(s) } ELSE ArrayPermutations(s)

\* Mutant: the new batch replaces the held collection instead of joining it.
mergeAndSortJobsReplacing(newJobs, currentJobs) == ArraySort(newJobs)

\* Mutant: records already held are dropped from the new batch before the merge.
mergeAndSortJobsDeduplicating(newJobs, currentJobs) ==
    ArraySort(SelectSeq(newJobs, LAMBDA r : r \notin Range(currentJobs)) \o currentJobs)

\* mergeAndSortJobs(newJobs, currentJobs): the arrays it may return.
mergeAndSortJobs(newJobs, currentJobs) == ArraySort(newJobs \o currentJobs)

\* Records the collaborator returns: two spellings of one instant with different
\* scores, a fresher low-scored posting, a posting whose date the collaborator could
\* not determine ("mark as Unknown/Now"), and an object with none of the string fields.
MkJob(title, date, score) ==
    [job_title |-> title, company |-> "Acme", location |-> "Stockholm", source |-> "LinkedIn",
     apply_url |-> "", publish_date_utc |-> date, match_score |-> score, job_age_hours |-> 30]

JobSameA       == MkJob("Data Analyst", "2024-05-01T10:00:00Z", 70)
JobSameB       == MkJob("BI Developer", "2024-05-01T12:00:00+02:00", 90)
JobFresherLow  == MkJob("ML Engineer", "2024-05-02T08:00:00Z", 60)
JobUnknownDate == MkJob("Data Scientist", "Unknown", 75)
JobWrongShape  ==
    [job_title |-> Undefined, company |-> Undefined, location |-> Undefined, source |-> Undefined,
     apply_url |-> Undefined, publish_date_utc |-> Undefined, match_score |-> 0,
     job_age_hours |-> 0]

MergeJobs == {JobSameA, JobSameB, JobFresherLow, JobUnknownDate}

\* Longest newJobs and currentJobs arrays handed to mergeAndSortJobs in SpecMerge.
MaxIncoming == 2
MaxExisting == 1

SeqsUpTo(S, n) == UNION { [1..k -> S] : k \in 0..n }

\* setJobs(prev => mergeAndSortJobs(results, prev)) seen in isolation.
Reconcile ==
    /\ ~merged
    /\ output' \in mergeAndSortJobs(incoming, existing)
    /\ merged' = TRUE
    /\ UNCHANGED <<incoming, existing, appVars, logVars, cardVars>>

(***************************************************************************)
(* App: the status log.                                                    *)
(***************************************************************************)
\* prev.slice(0, 49): the number of previous lines addLog keeps.
LogKeep == 49

\* new Date().toLocaleTimeString('sv-SE', ...): the wall clock is not modelled, every
\* line carries the same reading.
Timestamp == "12:00:00"

LogLine(message) == "[" \o Timestamp \o "] " \o message

\* Array.prototype.slice(0, n)
SliceFromStart(s, n) == SubSeq(s, 1, IF Len(s) < n THEN Len(s) ELSE n)

\* Mutant: the previous lines are kept without the slice.
addLogUntrimmed(message, prev) == <<LogLine(message)>> \o prev

\* setLogs(prev => [`[${timestamp}] ${message}`, ...prev.slice(0, 49)])
addLog(message, prev) == <<LogLine(message)>> \o SliceFromStart(prev, LogKeep)

MsgScanStart1   == "Initiating market scan for current month..."
MsgScanStart2   == "Targeting sources: Platsbanken, LinkedIn, Indeed..."
MsgScanNone     == "Scan complete. No matches found within current month window."
MsgAnalyzeStart == "Analyzing raw job description..."
MsgAnalyzeNone  == "Analysis complete. Role rejected (Score < 60 or Non-Sweden/Old)."
MsgScanDone(n)  == "Scan complete. Discovered " \o ToString(n) \o " valid matches from current month."
MsgAnalyzeDone(score) == "Analysis complete. Role qualified with score " \o ToString(score) \o "."
ErrPrefix(mode) == IF mode = "SIMULATE" THEN "ERR: Scan failed. " ELSE "ERR: Analysis failed. "

\* addLog calls followed in SpecLog, and changes of message among them.
MaxLogCalls == 52
MaxSwitches == 1

LogMessages == {MsgAnalyzeStart, MsgScanNone}

Switches(s) == Cardinality({ i \in 1..(Len(s) - 1) : s[i] # s[i + 1] })

\* One call of addLog.
AddLogCall(message) ==
    /\ Len(logged) < MaxLogCalls
    /\ Switches(<<LogLine(message)>> \o logged) <= MaxSwitches
    /\ logs' = addLog(message, logs)
    /\ logged' = <<LogLine(message)>> \o logged
    /\ UNCHANGED <<jobs, isScanning, activeTab, analyzeText, apiKey, inflight, calls, alerts,
                   invocations, last, mergeVars, cardVars>>

(***************************************************************************)
(* scanJobs and the inference collaborator.                                *)
(***************************************************************************)
\* What generateContent does with one call: it throws, or it answers with a text.
\* json names the document the text holds: "blank" (no text), "invalid" (not JSON),
\* "null", "object" (a JSON object), "array" (a JSON array of the items).
NoResponse == [kind |-> "none", message |-> "", json |-> "", items |-> <<>>]
Throws(m)  == [kind |-> "throw", message |-> m, json |-> "", items |-> <<>>]
Text(j, b) == [kind |-> "text", message |-> "", json |-> j, items |-> b]

AppJobs == {JobSameB, JobFresherLow, JobWrongShape}

\* Non-empty arrays the collaborator answers with: single records, a pair that arrives
\* out of display order, and a pair whose second object has the wrong shape.
Batches ==
    { <<a>> : a \in AppJobs } \cup { <<JobSameB, JobFresherLow>>, <<JobFresherLow, JobWrongShape>> }

Responses ==
    { Throws("Failed to fetch") }
      \cup { Text(j, <<>>) : j \in {"blank", "invalid", "null", "object", "array"} }
      \cup { Text("array", b) : b \in Batches }

\* A settled `await`: an exception (an Error or not, with its message) or a value.
Thrown(m)  == [threw |-> TRUE, isError |-> TRUE, message |-> m, type |-> "", items |-> <<>>]
Value(t, b) == [threw |-> FALSE, isError |-> FALSE, message |-> "", type |-> t, items |-> b]

\* JSON.parse(text)
JSONParse(r) ==
    IF r.json = "invalid"
    THEN Thrown("Unexpected token H in JSON at position 0")
    ELSE Value(r.json, r.items)

\* Mutant: an empty response text is thrown as an error instead of returned as [].
scanJobsEmptyTextThrows(r) ==
    IF r.kind = "throw" THEN Thrown(r.message)
    ELSE IF r.json = "blank" THEN Thrown("Empty response")
    ELSE JSONParse(r)

\* scanJobs once generateContent has settled with r: rethrow what the call or
\* JSON.parse threw, [] for an empty text, the parsed document cast to JobAlert[].
scanJobs(r) ==
    IF r.kind = "throw" THEN Thrown(r.message)
    ELSE IF r.json = "blank" THEN Value("array", <<>>)
    ELSE JSONParse(r)

\* Mutant: without a credential scanJobs answers with no records instead of throwing.
MissingKeySwallowed == Value("array", <<>>)

\* scanJobs without a credential: throw new Error("API Key is missing")
MissingKey == Thrown("API Key is missing")

\* `results.length > 0` on what scanJobs returned: reading length of null throws a
\* TypeError, an object without length gives undefined > 0, which is false.
ReadLength(o) ==
    IF o.threw THEN o
    ELSE IF o.type = "null" THEN Thrown("Cannot read properties of null (reading 'length')")
    ELSE o

HasResults(o) == o.type = "array" /\ Len(o.items) > 0

\* Mutant: the message of the caught error is dropped.
ErrorTextDropped(o) == "Unknown error"

\* error instanceof Error ? error.message : 'Unknown error'
ErrorText(o) == IF o.isError THEN o.message ELSE "Unknown error"

(***************************************************************************)
(* App: the handlers.                                                      *)
(***************************************************************************)
\* Trigger clicks followed in one session.
MaxTriggers == 2

Texts == {"", "  ", "Senior Data Engineer at Acme, Stockholm. Posted 2 days ago."}

\* String.prototype.trim
RECURSIVE Trim(_)
Trim(t) ==
    IF t = "" THEN ""
    ELSE IF CharAt(t, 1) = " " THEN Trim(SubSeq(t, 2, Len(t)))
    ELSE IF CharAt(t, Len(t)) = " " THEN Trim(SubSeq(t, 1, Len(t) - 1))
    ELSE t

Step(op, r) == [op |-> op, response |-> r]

RemoveAt(s, i) == SubSeq(s, 1, i - 1) \o SubSeq(s, i + 1, Len(s))

\* Mutant: the scan button is not gated by the busy flag.
SimulateNeverDisabled == FALSE

\* The disabled attribute of the two trigger buttons.
SimulateDisabled == isScanning
AnalyzeDisabled  == isScanning \/ ~Truthy(analyzeText)

\* onClick={() => setActiveTab(tab)}
SetActiveTab(tab) ==
    /\ activeTab' = tab
    /\ last' = Step("tab", NoResponse)
    /\ UNCHANGED <<jobs, isScanning, analyzeText, logs, apiKey, inflight, calls, alerts,
                   invocations, mergeVars, logVars, cardVars>>

\* onChange={(e) => setAnalyzeText(e.target.value)}
ChangeText(t) ==
    /\ activeTab = "analyze"
    /\ analyzeText' = t
    /\ last' = Step("type", NoResponse)
    /\ UNCHANGED <<jobs, isScanning, activeTab, logs, apiKey, inflight, calls, alerts,
                   invocations, mergeVars, logVars, cardVars>>

\* handleSimulateScan up to `await scanJobs('SIMULATE')`.
ClickSimulate ==
    /\ activeTab = "feed"
    /\ ~SimulateDisabled
    /\ invocations + alerts < MaxTriggers
    /\ IF ~Truthy(apiKey)
       THEN /\ alerts' = alerts + 1
            /\ last' = Step("alert", NoResponse)
            /\ UNCHANGED <<isScanning, logs, inflight, calls, invocations>>
       ELSE /\ isScanning' = TRUE
            /\ logs' = addLog(MsgScanStart2, addLog(MsgScanStart1, logs))
            /\ calls' = calls + 1
            /\ invocations' = invocations + 1
            /\ inflight' = Append(inflight, [mode |-> "SIMULATE", awaiting |-> "call"])
            /\ last' = Step("start", NoResponse)
            /\ UNCHANGED alerts
    /\ UNCHANGED <<jobs, activeTab, analyzeText, apiKey, mergeVars, logVars, cardVars>>

\* handleAnalyzeText up to `await scanJobs('ANALYZE', analyzeText)`.
ClickAnalyze ==
    /\ activeTab = "analyze"
    /\ ~AnalyzeDisabled
    /\ invocations + alerts < MaxTriggers
    /\ IF Trim(analyzeText) = ""
       THEN /\ last' = Step("skip", NoResponse)
            /\ UNCHANGED <<isScanning, logs, inflight, calls, invocations>>
       ELSE /\ isScanning' = TRUE
            /\ logs' = addLog(MsgAnalyzeStart, logs)
            /\ invocations' = invocations + 1
            /\ IF Truthy(apiKey)
               THEN /\ calls' = calls + 1
                    /\ inflight' = Append(inflight, [mode |-> "ANALYZE", awaiting |-> "call"])
               ELSE /\ calls' = calls
                    /\ inflight' = Append(inflight, [mode |-> "ANALYZE", awaiting |-> "rejection"])
            /\ last' = Step("start", NoResponse)
    /\ UNCHANGED <<jobs, activeTab, analyzeText, apiKey, alerts, mergeVars, logVars, cardVars>>

\* Mutant: setIsScanning(false) sits at the end of the try block instead of in finally.
ResumeFlagKeptOnFailure(i, o, r) ==
    LET mode    == inflight[i].mode
        results == ReadLength(o)
    IN  /\ IF results.threw
           THEN /\ logs' = addLog(ErrPrefix(mode) \o ErrorText(results), logs)
                /\ last' = Step("failed", r)
                /\ UNCHANGED <<jobs, analyzeText, activeTab>>
           ELSE IF HasResults(results)
           THEN /\ jobs' \in mergeAndSortJobs(results.items, jobs)
                /\ IF mode = "SIMULATE"
                   THEN /\ logs' = addLog(MsgScanDone(Len(results.items)), logs)
                        /\ UNCHANGED <<analyzeText, activeTab>>
                   ELSE /\ logs' = addLog(MsgAnalyzeDone(results.items[1].match_score), logs)
                        /\ analyzeText' = ""
                        /\ activeTab' = "feed"
                /\ last' = Step("merged", r)
           ELSE /\ logs' = addLog(IF mode = "SIMULATE" THEN MsgScanNone ELSE MsgAnalyzeNone, logs)
                /\ last' = Step("empty", r)
                /\ UNCHANGED <<jobs, analyzeText, activeTab>>
        /\ isScanning' = results.threw
        /\ inflight' = RemoveAt(inflight, i)
        /\ UNCHANGED <<apiKey, calls, alerts, invocations, mergeVars, logVars, cardVars>>

\* The handler of invocation i from its `await` to the end of `finally`, scanJobs
\* having settled with o, which came from the collaborator's response r.
Resume(i, o, r) ==
    LET mode    == inflight[i].mode
        results == ReadLength(o)
    IN  /\ IF results.threw
           THEN /\ logs' = addLog(ErrPrefix(mode) \o ErrorText(results), logs)
                /\ last' = Step("failed", r)
                /\ UNCHANGED <<jobs, analyzeText, activeTab>>
           ELSE IF HasResults(results)
           THEN /\ jobs' \in mergeAndSortJobs(results.items, jobs)
                /\ IF mode = "SIMULATE"
                   THEN /\ logs' = addLog(MsgScanDone(Len(results.items)), logs)
                        /\ UNCHANGED <<analyzeText, activeTab>>
                   ELSE /\ logs' = addLog(MsgAnalyzeDone(results.items[1].match_score), logs)
                        /\ analyzeText' = ""
                        /\ activeTab' = "feed"
                /\ last' = Step("merged", r)
           ELSE /\ logs' = addLog(IF mode = "SIMULATE" THEN MsgScanNone ELSE MsgAnalyzeNone, logs)
                /\ last' = Step("empty", r)
                /\ UNCHANGED <<jobs, analyzeText, activeTab>>
        /\ isScanning' = FALSE
        /\ inflight' = RemoveAt(inflight, i)
        /\ UNCHANGED <<apiKey, calls, alerts, invocations, mergeVars, logVars, cardVars>>

\* generateContent settles for an invocation whose call is in flight.
ResponseArrives ==
    \E i \in 1..Len(inflight) :
        /\ inflight[i].awaiting = "call"
        /\ \E r \in Responses : Resume(i, scanJobs(r), r)

\* scanJobs threw before any call: the handler resumes in its catch block.
KeyRejected ==
    \E i \in 1..Len(inflight) :
        /\ inflight[i].awaiting = "rejection"
        /\ Resume(i, MissingKey, NoResponse)

(***************************************************************************)
(* Specifications.                                                         *)
(***************************************************************************)
AppRest ==
    /\ jobs = <<>>
    /\ isScanning = FALSE
    /\ activeTab = "feed"
    /\ analyzeText = ""
    /\ logs = <<>>
    /\ inflight = <<>>
    /\ calls = 0
    /\ alerts = 0
    /\ invocations = 0
    /\ last = Step("init", NoResponse)

MergeRest == incoming = <<>> /\ existing = <<>> /\ output = <<>> /\ merged = FALSE
LogRest   == logged = <<>>
CardRest  == job = JobSameB /\ opened = <<>> /\ badge = NoBadge

Init ==
    /\ AppRest
    /\ apiKey \in {"", "test-key"}
    /\ MergeRest /\ LogRest /\ CardRest

Next ==
    \/ \E tab \in {"feed", "analyze"} : SetActiveTab(tab)
    \/ \E t \in Texts : ChangeText(t)
    \/ ClickSimulate
    \/ ClickAnalyze
    \/ ResponseArrives
    \/ KeyRejected

Spec == Init /\ [][Next]_vars

\* The promise a handler awaits settles: the rejection for a missing credential at
\* the next microtask, the collaborator's call with some response or failure.
SpecFair == Spec /\ WF_vars(ResponseArrives) /\ WF_vars(KeyRejected)

InitMerge ==
    /\ AppRest /\ apiKey = "test-key" /\ LogRest /\ CardRest
    /\ incoming \in SeqsUpTo(MergeJobs, MaxIncoming)
    /\ existing \in SeqsUpTo(MergeJobs, MaxExisting)
    /\ output = <<>>
    /\ merged = FALSE

SpecMerge == InitMerge /\ [][Reconcile]_vars

InitLog == AppRest /\ apiKey = "test-key" /\ MergeRest /\ LogRest /\ CardRest

NextLog == \E m \in LogMessages : AddLogCall(m)

SpecLog == InitLog /\ [][NextLog]_vars

InitCard ==
    /\ AppRest /\ apiKey = "test-key" /\ MergeRest /\ LogRest
    /\ job \in CardJobs
    /\ opened = <<>>
    /\ badge = NoBadge

SpecCard == InitCard /\ [][HandleApply]_vars

InitBadge ==
    /\ AppRest /\ apiKey = "test-key" /\ MergeRest /\ LogRest
    /\ job \in { [JobSameB EXCEPT !.job_age_hours = h] : h \in AgeHours }
    /\ opened = <<>>
    /\ badge = NoBadge

SpecBadge == InitBadge /\ [][RenderBadge]_vars

(***************************************************************************)
(* Properties of the reconciler (checked under SpecMerge).                 *)
(***************************************************************************)
Count(r, s) == Cardinality({ i \in 1..Len(s) : s[i] = r })

HasInstant(r) == ~DateGetTime(r.publish_date_utc).nan
Instant(r)    == DateGetTime(r.publish_date_utc).val

\* A may stand before B: A was published strictly later, or at the same instant with
\* a score at least as high.
MayPrecede(a, b) ==
    /\ HasInstant(a) /\ HasInstant(b)
    /\ \/ Instant(a) > Instant(b)
       \/ Instant(a) = Instant(b) /\ a.match_score >= b.match_score

\* Every pair of records that both carry an instant stands in display order.
OrderedByRecencyThenScore(s) ==
    \A i, k \in 1..Len(s) :
        i < k /\ HasInstant(s[i]) /\ HasInstant(s[k]) => MayPrecede(s[i], s[k])

\* C1. Order invariant: in the array mergeAndSortJobs returns, for every pair of
\* records A before B, A was published strictly later than B, or at the same instant
\* with A.match_score >= B.match_score; a fresher record never stands behind an
\* older one. (Stated for the pairs that have instants to compare.)
C1_OrderInvariant == merged => OrderedByRecencyThenScore(output)

\* The order invariant restricted to inputs whose publish dates all parse.
C1_OrderWhenDatesParse ==
    merged /\ (\A r \in Range(incoming \o existing) : HasInstant(r))
        => OrderedByRecencyThenScore(output)

\* C2. Union completeness: the array mergeAndSortJobs returns has size m + n and is
\* the multiset union of its two arguments: every record of either input is in it as
\* often as in both inputs together, field for field, and it holds no other record.
C2_UnionCompleteness ==
    merged =>
        /\ Len(output) = Len(incoming) + Len(existing)
        /\ \A r \in Range(incoming) \cup Range(existing) \cup Range(output) :
              Count(r, output) = Count(r, incoming) + Count(r, existing)
        /\ (incoming = <<>> => Range(output) = Range(existing))

\* A merge of a batch that repeats a held record and that had to be reordered.
C2_Witness ==
    /\ merged
    /\ Len(incoming) = 2 /\ Len(existing) = 1
    /\ existing[1] \in Range(incoming)
    /\ output # incoming \o existing

(***************************************************************************)
(* Properties of the status log (checked under SpecLog).                   *)
(***************************************************************************)
\* C6. The log never holds more than 50 lines: after k calls of addLog it is the
\* min(k, 50) most recent lines, newest first, the older ones discarded.
C6_LogBounded ==
    /\ Len(logs) <= 50
    /\ Len(logs) = (IF Len(logged) < 50 THEN Len(logged) ELSE 50)
    /\ logs = SubSeq(logged, 1, Len(logs))

\* More than 50 lines were logged, of both kinds, and the oldest are gone.
C6_Witness ==
    /\ Len(logged) > 50
    /\ Len(logs) = 50
    /\ logs[1] # logged[Len(logged)]

(***************************************************************************)
(* Properties of the apply-link resolver (checked under SpecCard).         *)
(***************************************************************************)
\* An absolute http(s) URL with a host and no character a URL cannot hold.
WellFormedUrl(u) ==
    /\ \/ StartsWith(u, "https://") /\ Len(u) > Len("https://")
       \/ StartsWith(u, "http://") /\ Len(u) > Len("http://")
    /\ ~Includes(u, " ")
    /\ ~Includes(u, "<")

\* C8. Whatever the fields of the job, the URL handed to window.open is a
\* well-formed URL and is never empty.
C8_ResolvedUrlWellFormed ==
    \A i \in 1..Len(opened) : opened[i] # "" /\ WellFormedUrl(opened[i])

\* The supplied apply_url is present, non-empty, of at least 5 characters and free of
\* the substring example.com.
TrustedApplyUrl(u) ==
    /\ u # Undefined
    /\ u # ""
    /\ Len(u) >= 5
    /\ ~Includes(u, "example.com")

ConstructedFallback(u) ==
    \/ StartsWith(u, "https://www.linkedin.com/jobs/search/?keywords=")
    \/ StartsWith(u, "https://platsbanken.arbetsformedlingen.se/platsannonser/sok?q=")
    \/ StartsWith(u, "https://se.indeed.com/jobs?q=")
    \/ StartsWith(u, "https://www.google.com/search?q=")

\* C9. Trusted pass-through: the resolver returns job.apply_url verbatim if and only
\* if it is non-empty, has at least 5 characters and does not contain example.com;
\* in every other case the supplied value is discarded for a constructed fallback.
C9_TrustedPassThrough ==
    \A i \in 1..Len(opened) :
        /\ (opened[i] = job.apply_url) <=> TrustedApplyUrl(job.apply_url)
        /\ ~TrustedApplyUrl(job.apply_url) => ConstructedFallback(opened[i])

\* A supplied URL of exactly 5 characters was passed through.
C9_Witness ==
    /\ Len(opened) > 0
    /\ Len(job.apply_url) = 5
    /\ opened[1] = job.apply_url

\* C10. Fallback branch selection on job.source, compared case-insensitively, first
\* match in the order linkedin, arbetsförmedlingen or platsbanken, indeed, otherwise
\* the generic web search; the query is the URL-encoded "title company", the location
\* defaults to Sweden, and the Platsbanken URL carries the query only.
C10_FallbackBranch ==
    \A i \in 1..Len(opened) :
        ~TrustedApplyUrl(job.apply_url) =>
            LET src   == ToLowerCase(IF job.source \in {Undefined, ""} THEN "" ELSE job.source)
                query == EncodeURIComponent(Interp(job.job_title) \o " " \o Interp(job.company))
                place == EncodeURIComponent(IF job.location \in {Undefined, ""}
                                            THEN "Sweden" ELSE job.location)
            IN  opened[i] =
                  CASE Includes(src, "linkedin") ->
                         "https://www.linkedin.com/jobs/search/?keywords=" \o query
                            \o "&location=" \o place
                    [] ~Includes(src, "linkedin")
                         /\ (Includes(src, "arbetsförmedlingen") \/ Includes(src, "platsbanken")) ->
                         "https://platsbanken.arbetsformedlingen.se/platsannonser/sok?q=" \o query
                    [] ~Includes(src, "linkedin") /\ ~Includes(src, "arbetsförmedlingen")
                         /\ ~Includes(src, "platsbanken") /\ Includes(src, "indeed") ->
                         "https://se.indeed.com/jobs?q=" \o query \o "&l=" \o place
                    [] OTHER ->
                         "https://www.google.com/search?q=" \o query \o "+job+" \o place

\* A rejected apply_url on a card whose source names both Indeed and LinkedIn: the
\* LinkedIn branch was taken.
C10_Witness ==
    /\ Len(opened) > 0
    /\ job.apply_url = "https://example.com/job/42"
    /\ job.source = "Indeed (via LinkedIn)"
    /\ job.location = ""
    /\ StartsWith(opened[1], "https://www.linkedin.com/jobs/search/?keywords=")

(***************************************************************************)
(* Properties of the App session (checked under Spec).                     *)
(***************************************************************************)
\* The message of the error a failed invocation ended with: what generateContent
\* threw, the SyntaxError of JSON.parse, the TypeError of reading null.length, or the
\* Error scanJobs throws without a credential.
UnderlyingMessage(entry, r) ==
    IF entry.awaiting = "rejection" THEN "API Key is missing"
    ELSE IF r.kind = "throw" THEN r.message
    ELSE IF r.json = "invalid" THEN "Unexpected token H in JSON at position 0"
    ELSE "Cannot read properties of null (reading 'length')"

\* C3. When a scan or analysis fails, the jobs collection is what it was before,
\* exactly one log line is added, an error line carrying the underlying message, no
\* call is issued again, and the busy flag is clear so that triggers are accepted.
C3_FailureLeavesJobs ==
    [][ last'.op = "failed" =>
          /\ jobs' = jobs
          /\ \E i \in 1..Len(inflight) :
                /\ inflight' = RemoveAt(inflight, i)
                /\ Head(logs') =
                     "[12:00:00] ERR: "
                       \o (IF inflight[i].mode = "SIMULATE" THEN "Scan" ELSE "Analysis")
                       \o " failed. " \o UnderlyingMessage(inflight[i], last'.response)
          /\ Tail(logs') = logs
          /\ calls' = calls
          /\ invocations' = invocations
          /\ ~isScanning'
      ]_vars

\* A call failed while records were held.
C3_Witness ==
    /\ last.op = "failed"
    /\ last.response.kind = "throw"
    /\ Len(jobs) > 0
    /\ Len(logs) >= 6

\* C4. At most one scan or analysis is in flight at any time.
C4_AtMostOneInFlight == Len(inflight) <= 1

\* A second invocation is in flight after the first has completed.
C4_Witness ==
    /\ Len(inflight) = 1
    /\ invocations = 2
    /\ isScanning

WellShaped(r) ==
    \A v \in {r.job_title, r.company, r.location, r.source, r.apply_url, r.publish_date_utc} :
        v # Undefined

\* The response text is not JSON, or is JSON that is not an array of job records.
Malformed(r) ==
    /\ r.kind = "text"
    /\ \/ r.json \in {"invalid", "null", "object"}
       \/ r.json = "array" /\ \E i \in 1..Len(r.items) : ~WellShaped(r.items[i])

\* C5. A malformed response is treated as a failure of the invocation and none of
\* its batch is merged into the jobs collection.
C5_MalformedAllOrNothing ==
    [][ Malformed(last'.response) => last'.op = "failed" /\ jobs' = jobs ]_vars

\* C7. The jobs collection is append-only: it starts empty, every step keeps every
\* held record with its multiplicity, and the collection changes only when a
\* non-empty batch is merged, growing by exactly the size of the batch.
C7_AppendOnly ==
    /\ jobs = <<>>
    /\ [][ /\ \A r \in Range(jobs) : Count(r, jobs') >= Count(r, jobs)
           /\ Len(jobs') >= Len(jobs)
           /\ jobs' # jobs =>
                 /\ last'.op = "merged"
                 /\ Len(last'.response.items) > 0
                 /\ Len(jobs') = Len(jobs) + Len(last'.response.items)
           /\ last'.op # "merged" => jobs' = jobs
       ]_vars

\* A batch that repeats a held record was merged into a non-empty collection.
C7_Witness ==
    /\ last.op = "merged"
    /\ Len(jobs) > Len(last.response.items)
    /\ \E r \in Range(last.response.items) : Count(r, jobs) >= 2

\* Lines of the log that report the missing credential.
MissingKeyLines ==
    { i \in 1..Len(logs) : Includes(logs[i], "ERR: ") /\ Includes(logs[i], "API Key is missing") }

\* C11. Missing credential: with no API credential configured, triggering a scan or
\* an analysis never issues the call to the collaborator, every trigger is reported
\* to the user (an alert for a scan, an error line for an analysis), the jobs
\* collection stays as it was, and the busy flag is set only until the rejected
\* analysis has been handled.
C11_MissingCredential ==
    ~Truthy(apiKey) =>
        /\ calls = 0
        /\ jobs = <<>>
        /\ \A i \in 1..Len(inflight) : inflight[i].awaiting = "rejection"
        /\ isScanning => Len(inflight) = 1
        /\ last.op \in {"failed", "alert"} => ~isScanning
        /\ Cardinality(MissingKeyLines) = invocations - Len(inflight)
        /\ last.op = "failed" => Includes(Head(logs), "API Key is missing")
        /\ last.op \in {"init", "tab", "type", "skip", "start", "failed", "alert"}

\* Without a credential a scan was answered with an alert and an analysis with an
\* error line, and the busy flag is clear.
C11_Witness ==
    /\ ~Truthy(apiKey)
    /\ alerts = 1
    /\ invocations = 1
    /\ last.op = "failed"
    /\ ~isScanning

\* The invocation completed with zero records: an empty array or an empty text.
EmptyResult(r) ==
    /\ r.kind = "text"
    /\ \/ r.json = "blank"
       \/ r.json = "array" /\ r.items = <<>>

\* C12. Empty result is not an error: when an invocation completes with zero
\* records, one informational no-matches line is logged and no error line, the
\* reconciler is not applied, and the jobs collection is left exactly as it was.
C12_EmptyResultNotError ==
    [][ EmptyResult(last'.response) =>
          /\ last'.op = "empty"
          /\ jobs' = jobs
          /\ Tail(logs') = logs
          /\ ~Includes(Head(logs'), "ERR")
          /\ \E i \in 1..Len(inflight) :
                /\ inflight' = RemoveAt(inflight, i)
                /\ Head(logs') =
                     (IF inflight[i].mode = "SIMULATE"
                      THEN "[12:00:00] Scan complete. No matches found within current month window."
                      ELSE "[12:00:00] Analysis complete. Role rejected (Score < 60 or Non-Sweden/Old).")
      ]_vars

\* An empty response text ended an invocation while records were held.
C12_Witness ==
    /\ last.op = "empty"
    /\ last.response.json = "blank"
    /\ Len(jobs) > 0

(***************************************************************************)
(* Properties of the age badge (checked under SpecBadge).                  *)
(***************************************************************************)
\* C13. Age tiering: job_age_hours <= 24 is "new", 24 < job_age_hours <= 48 is
\* "recent", job_age_hours > 48 is "aged" and shown as floor(job_age_hours / 24)
\* days; so 24 is new, 25 and 48 are recent, 49 is aged with 2 days, and negative
\* values are new.
C13_AgeTiering ==
    badge # NoBadge =>
        LET h == job.job_age_hours
        IN  /\ badge.tier \in {"new", "recent", "aged"}
            /\ (badge.tier = "new") = (h <= 24)
            /\ (badge.tier = "recent") = (24 < h /\ h <= 48)
            /\ (badge.tier = "aged") = (h > 48)
            /\ badge.tier = "aged" =>
                  \E d \in 2..(MaxAgeHours + 1) :
                      /\ d * 24 <= h /\ h < (d + 1) * 24
                      /\ badge.text = ToString(d) \o "d old"
            /\ h = 24 => badge.tier = "new"
            /\ h = 25 => badge.tier = "recent"
            /\ h = 48 => badge.tier = "recent"
            /\ h = 49 => badge.tier = "aged" /\ badge.text = "2d old"
            /\ h < 0 => badge.tier = "new"

\* A card aged 49 hours rendered the aged badge with 2 days.
C13_Witness ==
    /\ job.job_age_hours = 49
    /\ badge.tier = "aged"
    /\ badge.text = "2d old"

(***************************************************************************)
(* Properties of the busy flag (checked under SpecFair).                   *)
(***************************************************************************)
\* C14. Busy-flag release: the flag is set exactly while an invocation is pending,
\* the step in which the invocation's response or failure is handled clears it
\* whatever the outcome, and once set it is eventually cleared, so the triggers are
\* re-enabled.
C14_BusyFlagRelease ==
    /\ [](isScanning <=> inflight # <<>>)
    /\ [][ /\ last'.op \in {"merged", "empty", "failed"} => isScanning /\ ~isScanning'
           /\ (~isScanning /\ isScanning') => last'.op = "start" /\ invocations' = invocations + 1
           /\ (isScanning /\ ~isScanning') => last'.op \in {"merged", "empty", "failed"}
       ]_vars
    /\ (isScanning ~> ~isScanning)

\* The flag is clear again after a second invocation, which failed.
C14_Witness ==
    /\ ~isScanning
    /\ invocations = 2
    /\ last.op = "failed"
    /\ inflight = <<>>

====
